---------------------------- MODULE Spec2Model ----------------------------
(***************************************************************************)
(* Model of camelot/handlers.py: class PDFHandler.                         *)
(*                                                                         *)
(* A Python str is a sequence of one-character strings, so that split,     *)
(* lower, endswith, replace, splitext and int() are computed and not       *)
(* assumed.  The document engine (fitz), the layout analysis and the table *)
(* parsers are collaborators outside the file: their results are inputs    *)
(* drawn from small sets, and their failures are drawn from Faults.        *)
(***************************************************************************)
EXTENDS Integers, Sequences, FiniteSets, TLC

----------------------------------------------------------------------------
(* Bounds of the model *)

\* largest page count of a source document
MaxPages == 2

----------------------------------------------------------------------------
(* Python str operations used by the handler *)

DigitChars == <<"0", "1", "2", "3", "4", "5", "6", "7", "8", "9">>

IsDigit(c) == \E d \in 1..10 : DigitChars[d] = c

DigitVal(c) == (CHOOSE d \in 1..10 : DigitChars[d] = c) - 1

\* the text int() accepts: the alphabet of the model has no sign that reaches
\* int(), no blank and no underscore, so a literal is a non-empty digit string
IsIntLiteral(s) == Len(s) > 0 /\ \A k \in 1..Len(s) : IsDigit(s[k])

RECURSIVE IntOf(_)
\* int(s) of a digit string
IntOf(s) ==
    IF Len(s) = 0 THEN 0
    ELSE 10 * IntOf(SubSeq(s, 1, Len(s) - 1)) + DigitVal(s[Len(s)])

RECURSIVE StrOf(_)
\* the decimal text an f-string gives for a non-negative int
StrOf(n) ==
    IF n < 10 THEN <<DigitChars[n + 1]>>
    ELSE StrOf(n \div 10) \o <<DigitChars[(n % 10) + 1]>>

\* c in s
Contains(s, c) == \E k \in 1..Len(s) : s[k] = c

RECURSIVE Split(_, _)
\* s.split(c) for a one-character separator
Split(s, c) ==
    IF ~Contains(s, c) THEN <<s>>
    ELSE LET k == CHOOSE j \in 1..Len(s) :
                      s[j] = c /\ \A m \in 1..(j - 1) : s[m] # c
         IN  <<SubSeq(s, 1, k - 1)>> \o Split(SubSeq(s, k + 1, Len(s)), c)

UpperChars == <<"P", "D", "F">>
LowerChars == <<"p", "d", "f">>

\* str.lower() on the letters of the model's alphabet
LowerChar(c) ==
    IF \E k \in 1..3 : UpperChars[k] = c
    THEN LowerChars[CHOOSE k \in 1..3 : UpperChars[k] = c]
    ELSE c

Lower(s) == [k \in 1..Len(s) |-> LowerChar(s[k])]

\* s.endswith(t)
EndsWith(s, t) ==
    /\ Len(s) >= Len(t)
    /\ SubSeq(s, Len(s) - Len(t) + 1, Len(s)) = t

\* s[k:].startswith(t)
StartsAt(s, k, t) ==
    /\ k + Len(t) - 1 <= Len(s)
    /\ SubSeq(s, k, k + Len(t) - 1) = t

RECURSIVE Replace(_, _, _)
\* s.replace(old, new), old non-empty: every occurrence, left to right
Replace(s, old, new) ==
    IF Len(s) = 0 THEN <<>>
    ELSE IF StartsAt(s, 1, old)
         THEN new \o Replace(SubSeq(s, Len(old) + 1, Len(s)), old, new)
         ELSE <<s[1]>> \o Replace(SubSeq(s, 2, Len(s)), old, new)

\* index of the last "/" of a path, 0 when it has none
LastSlash(s) ==
    IF Contains(s, "/")
    THEN CHOOSE k \in 1..Len(s) :
             s[k] = "/" /\ \A m \in (k + 1)..Len(s) : s[m] # "/"
    ELSE 0

\* os.path.dirname
DirName(s) == SubSeq(s, 1, LastSlash(s) - 1)

\* os.path.join(a, b) for a relative b
PathJoin(a, b) ==
    IF Len(a) = 0 \/ a[Len(a)] = "/" THEN a \o b ELSE a \o <<"/">> \o b

\* os.path.splitext: the extension starts at the last dot of the last
\* component, unless that dot only leads the component
SplitExt(s) ==
    LET base == LastSlash(s) + 1
        dots == {k \in base..Len(s) : s[k] = "."}
        lead == {k \in base..Len(s) : \A m \in base..k : s[m] = "."}
    IN  IF dots \subseteq lead THEN <<s, <<>>>>
        ELSE LET k == CHOOSE j \in dots : \A m \in dots : m <= j
             IN  <<SubSeq(s, 1, k - 1), SubSeq(s, k, Len(s))>>

RECURSIVE SortedSeq(_)
\* sorted(S) of a finite set of ints
SortedSeq(S) ==
    IF S = {} THEN <<>>
    ELSE LET m == CHOOSE x \in S : \A y \in S : x <= y
         IN  <<m>> \o SortedSeq(S \ {m})

----------------------------------------------------------------------------
(* Exceptions *)

NoErr == [kind |-> "none", msg |-> "", wrapped |-> FALSE]

Failure(kind, msg) == [kind |-> kind, msg |-> msg, wrapped |-> FALSE]

\* what the engine raises when content of a closed or still encrypted
\* document is accessed
EngineClosed == Failure("ValueError", "document closed or encrypted")

\* failures a collaborator (engine, layout analysis, parser, file system) can
\* raise at any call; the second has the engine's message under another kind
Faults ==
    { EngineClosed,
      Failure("RuntimeError", "document closed or encrypted"),
      Failure("ValueError", "cannot save" ) }

----------------------------------------------------------------------------
(* The source document, as the engine shows it *)

\* the one password that decrypts a protected document
DocPassword == <<"s">>

Rotations == {0, 90, 180, 270}

\* source documents: n pages; page k has a media box of 3 x (4 + k) and the
\* recorded rotation 90 * (seed + k) mod 360
Docs == [n : 1..MaxPages, seed : 0..3, needsPass : BOOLEAN]

SourcePage(d, k) ==
    [w |-> 3, h |-> 4 + k, rot |-> (90 * (d.seed + k)) % 360, content |-> k]

\* Page.rect of the engine: the page box as displayed, so a recorded rotation
\* of 90 or 270 exchanges width and height
Rect(pg) ==
    IF pg.rot \in {90, 270} THEN [width |-> pg.h, height |-> pg.w]
    ELSE [width |-> pg.w, height |-> pg.h]

\* Page.setRotation on a loaded page
SetRotation(pg, r) == [pg EXCEPT !.rot = r]

\* infile.authenticate(password) succeeded, or was not needed
Unlocked(d, pw) == ~d.needsPass \/ pw = DocPassword

----------------------------------------------------------------------------
(* Document handles *)

Handle(kind, by) == [kind |-> kind, by |-> by, open |-> TRUE]

\* leaving a "with fitz.open(...)" block closes the handle it opened
WithExit(h) == [h EXCEPT !.open = FALSE]

----------------------------------------------------------------------------
(* PDFHandler._get_pages *)

AllText == <<"a", "l", "l">>
EndText == <<"e", "n", "d">>
OneText == <<"1">>

BadLiteral == Failure("ValueError", "invalid literal for int()")
BadUnpack == Failure("ValueError", "wrong number of values to unpack")

\* one token r of pages.split(","): the range it appends, or the failure
TokenRange(r, d, unlocked, countRaises) ==
    IF Contains(r, "-")
    THEN LET parts == Split(r, "-") IN
         IF Len(parts) # 2
         THEN [err |-> BadUnpack, start |-> 0, end |-> 0, countRead |-> FALSE]
         ELSE LET a == parts[1]
                  b == parts[2]
                  isEnd == (b = EndText)
              IN  IF isEnd /\ ~unlocked /\ countRaises
                  THEN [err |-> EngineClosed, start |-> 0, end |-> 0,
                        countRead |-> TRUE]
                  ELSE IF ~IsIntLiteral(a) \/ (~isEnd /\ ~IsIntLiteral(b))
                  THEN [err |-> BadLiteral, start |-> 0, end |-> 0,
                        countRead |-> isEnd]
                  ELSE [err |-> NoErr, start |-> IntOf(a),
                        end |-> IF isEnd THEN d.n ELSE IntOf(b),
                        countRead |-> isEnd]
    ELSE IF ~IsIntLiteral(r)
         THEN [err |-> BadLiteral, start |-> 0, end |-> 0, countRead |-> FALSE]
         ELSE [err |-> NoErr, start |-> IntOf(r), end |-> IntOf(r),
               countRead |-> FALSE]

RECURSIVE TokenRanges(_, _, _, _)
\* the loop over pages.split(","): it stops at the first failing token
TokenRanges(toks, d, unlocked, countRaises) ==
    IF Len(toks) = 0
    THEN [err |-> NoErr, ranges |-> <<>>, countRead |-> FALSE]
    ELSE LET t == TokenRange(toks[1], d, unlocked, countRaises) IN
         IF t.err # NoErr
         THEN [err |-> t.err, ranges |-> <<>>, countRead |-> t.countRead]
         ELSE LET rest == TokenRanges(Tail(toks), d, unlocked, countRaises)
              IN  [err |-> rest.err,
                   ranges |-> <<[start |-> t.start, end |-> t.end]>>
                                 \o rest.ranges,
                   countRead |-> t.countRead \/ rest.countRead]

\* sorted(set(P)), P the ranges' pages: range(start, end + 1) is empty when
\* start > end
PagesOf(ranges) ==
    SortedSeq(UNION {ranges[k].start .. ranges[k].end : k \in 1..Len(ranges)})

\* the else branch of _get_pages: the document is opened, and closed again
\* on every way out (the handle is recorded by the caller)
GetPagesOpened(pages, d, pw, countRaises) ==
    LET unlocked == Unlocked(d, pw) IN
    IF pages = AllText
    THEN IF ~unlocked /\ countRaises
         THEN [err |-> EngineClosed, P |-> <<>>, opened |-> TRUE,
               authed |-> d.needsPass, countRead |-> TRUE]
         ELSE [err |-> NoErr, P |-> PagesOf(<<[start |-> 1, end |-> d.n]>>),
               opened |-> TRUE, authed |-> d.needsPass, countRead |-> TRUE]
    ELSE LET t == TokenRanges(Split(pages, ","), d, unlocked, countRaises)
         IN  [err |-> t.err,
              P |-> IF t.err = NoErr THEN PagesOf(t.ranges) ELSE <<>>,
              opened |-> TRUE, authed |-> d.needsPass,
              countRead |-> t.countRead]

\* mutant of GetPages: no shortcut for the literal "1"
GetPagesEager(pages, d, pw, countRaises) ==
    GetPagesOpened(pages, d, pw, countRaises)

\* _get_pages(filepath, pages): the page list or the failure, and what it
\* did to the document on the way
GetPages(pages, d, pw, countRaises) ==
    IF pages = OneText
    THEN [err |-> NoErr, P |-> PagesOf(<<[start |-> 1, end |-> 1]>>),
          opened |-> FALSE, authed |-> FALSE, countRead |-> FALSE]
    ELSE GetPagesOpened(pages, d, pw, countRaises)

----------------------------------------------------------------------------
(* PDFHandler._save_page *)

PdfExt == <<".", "p", "d", "f">>
PageWord == <<"p", "a", "g", "e">>
RotatedMark == <<"_", "r", "o", "t", "a", "t", "e", "d">>

\* os.path.join(temp, f"page-{page}.pdf")
PagePath(temp, page) ==
    PathJoin(temp, PageWord \o <<"-">> \o StrOf(page) \o PdfExt)

\* mutant of RotatedPath: the corrected document is given no other name
RotatedPathSame(fpath) == fpath

\* "".join([froot.replace("page", "p"), "_rotated", fext]): replace acts on
\* the whole of froot, the directory part included
RotatedPath(fpath) ==
    LET se == SplitExt(fpath)
    IN  Replace(se[1], PageWord, <<"p">>) \o RotatedMark \o se[2]

\* the results of get_rotation
Decisions == {"", "anticlockwise", "clockwise"}

\* the calls of _save_page a collaborator's failure can come from
FaultPoints ==
    {"none", "open", "load", "save", "layout", "rename", "reopen", "save2"}

\* mutant of ResetRotation: the rotation of the source page is kept
KeepRotation(pg) == pg

\* p.setRotation(0) on the loaded source page
ResetRotation(pg) == SetRotation(pg, 0)

\* outfile.newPage(-1, width=p.rect.width, height=p.rect.height) followed by
\* showPDFpage: a one-page document with that canvas, no rotation recorded,
\* showing the given content
NewPageDoc(pg, corrected) ==
    [w |-> Rect(pg).width, h |-> Rect(pg).height, rot |-> 0,
     content |-> pg.content, corrected |-> corrected]

\* mutant of CorrectedRotation: the two offsets exchanged
CorrectedRotationSwapped(decision, r) ==
    IF decision = "anticlockwise" THEN (r + 270) % 360
    ELSE IF decision = "clockwise" THEN (r + 90) % 360
    ELSE 0

\* the rotation the corrected page is given, r the rotation of the page read
\* back from the extracted document
CorrectedRotation(decision, r) ==
    IF decision = "anticlockwise" THEN (r + 90) % 360
    ELSE IF decision = "clockwise" THEN (r + 270) % 360
    ELSE 0

\* f with path mapped to doc
Saved(f, path, docu) ==
    [x \in (DOMAIN f) \cup {path} |-> IF x = path THEN docu ELSE f[x]]

\* os.rename(from, to) of an existing file into an existing directory
Renamed(f, from, to) ==
    [x \in ((DOMAIN f) \ {from}) \cup {to} |-> IF x = to THEN f[from] ELSE f[x]]

\* infile[i]: the page number it loads, 0 when i is outside -n .. n-1
LoadIndex(d, i) ==
    IF i >= 0 /\ i < d.n THEN i + 1
    ELSE IF i < 0 /\ i >= -d.n THEN i + d.n + 1
    ELSE 0

NoLog(page) ==
    [page |-> page, loaded |-> 0, decision |-> "", corrected |-> FALSE,
     r |-> 0, newRot |-> 0, fpath |-> <<>>, fpathNew |-> <<>>]

\* _save_page(filepath, page, temp) on files f and directories ds, with the
\* layout analysis deciding `decision` and a collaborator failing with
\* `fault` at call `at`: the failure raised, the files left, the handles it
\* opened in their state at exit, and a record of what it did
SavePage(d, pw, f, ds, page, temp, decision, at, fault) ==
    LET src == WithExit(Handle("source", "_save_page"))
        out1 == Handle("new", "_save_page")
        re == Handle("reopened", "_save_page")
        out2 == Handle("new", "_save_page")
        fpath == PagePath(temp, page)
        k == LoadIndex(d, page - 1)
        log0 == [NoLog(page) EXCEPT !.fpath = fpath]
    IN
    IF at = "open"
    THEN [err |-> fault, files |-> f, handles |-> <<>>, log |-> log0]
    ELSE IF ~Unlocked(d, pw)
    THEN [err |-> EngineClosed, files |-> f, handles |-> <<src>>, log |-> log0]
    ELSE IF k = 0
    THEN [err |-> Failure("IndexError", "page not in document"), files |-> f,
          handles |-> <<src>>, log |-> log0]
    ELSE IF at = "load"
    THEN [err |-> fault, files |-> f, handles |-> <<src>>, log |-> log0]
    ELSE
    LET p == ResetRotation(SourcePage(d, k))
        doc1 == NewPageDoc(p, FALSE)
        f1 == Saved(f, fpath, doc1)
        log1 == [log0 EXCEPT !.loaded = k, !.decision = decision]
    IN
    IF at = "save"
    THEN [err |-> fault, files |-> f, handles |-> <<src, out1>>,
          log |-> [log1 EXCEPT !.decision = ""]]
    ELSE IF at = "layout"
    THEN [err |-> fault, files |-> f1, handles |-> <<src, out1>>,
          log |-> [log1 EXCEPT !.decision = ""]]
    ELSE IF decision = ""
    THEN [err |-> NoErr, files |-> f1, handles |-> <<src, out1>>, log |-> log1]
    ELSE
    LET fnew == RotatedPath(fpath)
        log2 == [log1 EXCEPT !.fpathNew = fnew]
    IN
    IF DirName(fnew) \notin ds
    THEN [err |-> Failure("FileNotFoundError", "No such file or directory"),
          files |-> f1, handles |-> <<src, out1>>, log |-> log2]
    ELSE IF at = "rename"
    THEN [err |-> fault, files |-> f1, handles |-> <<src, out1>>, log |-> log2]
    ELSE
    LET f2 == Renamed(f1, fpath, fnew)
        p2 == f2[fnew]
        doc2 == [NewPageDoc(p2, TRUE) EXCEPT
                    !.rot = CorrectedRotation(decision, p2.rot)]
        log3 == [log2 EXCEPT !.corrected = TRUE, !.r = p2.rot,
                             !.newRot = doc2.rot]
    IN
    IF at = "reopen"
    THEN [err |-> fault, files |-> f2, handles |-> <<src, out1>>, log |-> log2]
    ELSE IF at = "save2"
    THEN [err |-> fault, files |-> f2, handles |-> <<src, out1, re, out2>>,
          log |-> log2]
    ELSE [err |-> NoErr, files |-> Saved(f2, fpath, doc2),
          handles |-> <<src, out1, re, out2>>, log |-> log3]

----------------------------------------------------------------------------
(* PDFHandler.__init__ *)

\* the failure of __init__ on a file that is no PDF by its name
Unsupported == Failure("NotImplementedError", "File format not supported")

\* mutant of SupportedFormat: the comparison without lower()
SupportedFormatCased(path) == EndsWith(path, PdfExt)

\* filepath.lower().endswith(".pdf")
SupportedFormat(path) == EndsWith(Lower(path), PdfExt)

\* utils.is_url: the locator names a scheme
IsUrl(s) == StartsAt(s, 1, <<"h", ":">>)

\* paths on the local file system
LocalPaths ==
    { <<"a", ".", "p", "d", "f">>,
      <<"a", ".", "P", "D", "F">>,
      <<"a", ".", "P", "d", "f">>,
      <<"a", ".", "t">>,
      <<"p", "d", "f">>,
      <<"a", ".", "p", "d", "f", ".", "t">> }

\* what a caller passes as filepath: a local path or a URL
Sources == LocalPaths \cup { <<"h", ":", "a">>, <<"h", ":", "a", ".", "p", "d", "f">> }

\* what a caller passes as password: None, or a text
Passwords ==
    { [given |-> FALSE, text |-> <<>>],
      [given |-> TRUE, text |-> DocPassword],
      [given |-> TRUE, text |-> <<"w">>] }

\* self.password: "" for None; the encode of line 49 runs under Python 2
\* only, which cannot load the f-strings of this file
PasswordOf(pw) == IF pw.given THEN pw.text ELSE <<>>

\* what a caller passes as pages
PageSpecs ==
    { <<"1">>, <<"a", "l", "l">>, <<"2">>, <<"0">>, <<"3">>, <<"0", "1">>,
      <<"2", ",", "1">>, <<"1", ",", "1">>,
      <<"1", "-", "2">>, <<"2", "-", "1">>, <<"2", "-", "1", ",", "1">>,
      <<"1", "-", "e", "n", "d">>, <<"3", "-", "e", "n", "d">>,
      <<"0", "-", "1">>, <<"2", "-", "3">>,
      <<"x">>, <<>>, <<"1", "-">>, <<"1", "-", "2", "-", "3">>,
      <<"e", "n", "d">>, <<"x", "-", "e", "n", "d">> }

\* tempfile names TemporaryDirectory can hand out; the second contains the
\* word "page"
TempDirs ==
    { <<"/", "t", "/", "a">>, <<"/", "t", "/", "p", "a", "g", "e">> }

----------------------------------------------------------------------------
(* State *)

VARIABLES
    pc,          \* where the caller of the handler is
    doc,         \* the source document on disk
    pagesArg,    \* the pages argument of __init__
    filepath,    \* self.filepath
    password,    \* self.password
    pages,       \* self.pages
    resolved,    \* what _get_pages did to the document
    handles,     \* every document handle opened so far, with its state
    tempdir,     \* the name TemporaryDirectory gave to parse
    dirs,        \* the directories that exist under the temp root
    files,       \* the single-page documents on disk: path -> document
    idx,         \* position of the running loop of parse
    pagePaths,   \* the list `pages` of parse
    parser,      \* the parser parse instantiated
    parserCalls, \* the calls of parser.extract_tables so far
    tables,      \* the list `tables` of parse
    result,      \* what parse returned
    origErr,     \* the failure as raised inside the try block of parse
    err,         \* the failure that leaves __init__ or parse
    tmpCreated,  \* number of temporary directories created
    tmpReleased, \* number of temporary directories removed
    pageLog      \* one record per call of _save_page

vars ==
    <<pc, doc, pagesArg, filepath, password, pages, resolved, handles, tempdir,
      dirs, files, idx, pagePaths, parser, parserCalls, tables, result,
      origErr, err, tmpCreated, tmpReleased, pageLog>>

NotResolved ==
    [called |-> FALSE, opened |-> FALSE, authed |-> FALSE, countRead |-> FALSE]

EmptyFiles == [x \in {} |-> 0]

Init ==
    /\ pc = "new"
    /\ doc \in Docs
    /\ pagesArg = <<>>
    /\ filepath = <<>>
    /\ password = <<>>
    /\ pages = <<>>
    /\ resolved = NotResolved
    /\ handles = <<>>
    /\ tempdir = <<>>
    /\ dirs = {}
    /\ files = EmptyFiles
    /\ idx = 0
    /\ pagePaths = <<>>
    /\ parser = "none"
    /\ parserCalls = <<>>
    /\ tables = <<>>
    /\ result = <<>>
    /\ origErr = NoErr
    /\ err = NoErr
    /\ tmpCreated = 0
    /\ tmpReleased = 0
    /\ pageLog = <<>>

\* PDFHandler(source, pagesText, pw): dl is the path download_url returns for
\* a URL, countRaises whether the engine refuses the page count of a document
\* it could not decrypt
Construct ==
    /\ pc = "new"
    /\ \E source \in Sources, pagesText \in PageSpecs, pw \in Passwords,
          dl \in LocalPaths, countRaises \in BOOLEAN :
         LET fp == IF IsUrl(source) THEN dl ELSE source IN
         /\ filepath' = fp
         /\ pagesArg' = pagesText
         /\ IF ~SupportedFormat(fp)
            THEN /\ pc' = "init_failed"
                 /\ err' = Unsupported
                 /\ UNCHANGED <<password, pages, resolved, handles>>
            ELSE LET g == GetPages(pagesText, doc, PasswordOf(pw), countRaises)
                 IN  /\ password' = PasswordOf(pw)
                     /\ resolved' = [called |-> TRUE, opened |-> g.opened,
                                     authed |-> g.authed,
                                     countRead |-> g.countRead]
                     /\ handles' =
                          IF g.opened
                          THEN Append(handles,
                                      WithExit(Handle("source", "_get_pages")))
                          ELSE handles
                     /\ IF g.err # NoErr
                        THEN pc' = "init_failed" /\ err' = g.err
                                                 /\ pages' = pages
                        ELSE pc' = "ready" /\ err' = err /\ pages' = g.P
    /\ UNCHANGED <<doc, tempdir, dirs, files, idx, pagePaths, parser,
                   parserCalls, tables, result, origErr, tmpCreated,
                   tmpReleased, pageLog>>

----------------------------------------------------------------------------
(* PDFHandler.parse *)

\* raise ValueError("file has not been decrypted") from err
NotDecrypted ==
    [kind |-> "ValueError", msg |-> "file has not been decrypted",
     wrapped |-> TRUE]

\* mutant of Translate: every ValueError is taken for the engine's
TranslateAnyValueError(e) ==
    IF e.kind = "ValueError" THEN NotDecrypted ELSE e

\* the except clause of parse: what leaves the try block for a failure e
Translate(e) ==
    IF e.kind = "ValueError" /\ e.msg = "document closed or encrypted"
    THEN NotDecrypted
    ELSE e

\* mutant of ReleasedOnExit: the directory is removed by a statement after
\* the loops, which a failure skips
ReleasedOnNormalExit(e) == e = NoErr

\* the with block of parse encloses the try block: its exit runs for a
\* normal end and for a failure e alike
ReleasedOnExit(e) == TRUE

\* TemporaryDirectory.__exit__: the directory and all it holds are removed
RemoveTree(f, t) ==
    [x \in {y \in DOMAIN f : ~StartsAt(y, 1, t \o <<"/">>)} |-> f[x]]

\* [os.path.join(tempdir, f"page-{p}.pdf") for p in self.pages]
PagePathList(t, ps) == [k \in 1..Len(ps) |-> PagePath(t, ps[k])]

RECURSIVE SortTables(_)
\* sorted(tables): tables order by page, then by their order on the page
SortTables(ts) ==
    IF Len(ts) = 0 THEN <<>>
    ELSE LET m == CHOOSE k \in 1..Len(ts) :
                      \A j \in 1..Len(ts) :
                          \/ ts[k].page < ts[j].page
                          \/ ts[k].page = ts[j].page /\ ts[k].order < ts[j].order
                          \/ ts[k] = ts[j] /\ k <= j
         IN  <<ts[m]>> \o SortTables([j \in 1..(Len(ts) - 1) |->
                                          IF j < m THEN ts[j] ELSE ts[j + 1]])

\* tables = []; with TemporaryDirectory() as tempdir:
ParseEnter ==
    /\ pc = "ready"
    /\ \E t \in TempDirs :
         /\ tempdir' = t
         /\ dirs' = dirs \cup {t}
    /\ tmpCreated' = tmpCreated + 1
    /\ tables' = <<>>
    /\ idx' = 1
    /\ pc' = "saving"
    /\ UNCHANGED <<doc, pagesArg, filepath, password, pages, resolved, handles,
                   files, pagePaths, parser, parserCalls, result, origErr, err,
                   tmpReleased, pageLog>>

\* one turn of: for p in self.pages: self._save_page(self.filepath, p, tempdir)
SavePageStep ==
    /\ pc = "saving"
    /\ idx <= Len(pages)
    /\ \E decision \in Decisions, at \in FaultPoints, fault \in Faults :
         LET r == SavePage(doc, password, files, dirs, pages[idx], tempdir,
                           decision, at, fault)
         IN  /\ files' = r.files
             /\ handles' = handles \o r.handles
             /\ pageLog' = Append(pageLog, r.log)
             /\ IF r.err # NoErr
                THEN pc' = "except" /\ origErr' = r.err /\ idx' = idx
                ELSE pc' = "saving" /\ origErr' = origErr /\ idx' = idx + 1
    /\ UNCHANGED <<doc, pagesArg, filepath, password, pages, resolved, tempdir,
                   dirs, pagePaths, parser, parserCalls, tables, result, err,
                   tmpCreated, tmpReleased>>

\* pages = [...]; parser = Lattice(**kwargs) if flavor == "lattice" else
\* Stream(**kwargs), whose constructor may refuse the keyword arguments
MakeParser ==
    /\ pc = "saving"
    /\ idx > Len(pages)
    /\ pagePaths' = PagePathList(tempdir, pages)
    /\ \E flavor \in {"lattice", "stream"}, fails \in BOOLEAN :
         IF fails
         THEN /\ pc' = "except"
              /\ origErr' = Failure("TypeError", "unexpected keyword argument")
              /\ UNCHANGED <<parser, idx>>
         ELSE /\ pc' = "extracting"
              /\ parser' = IF flavor = "lattice" THEN "Lattice" ELSE "Stream"
              /\ idx' = 1
              /\ origErr' = origErr
    /\ UNCHANGED <<doc, pagesArg, filepath, password, pages, resolved, handles,
                   tempdir, dirs, files, parserCalls, tables, result, err,
                   tmpCreated, tmpReleased, pageLog>>

\* one turn of: for p in pages: t = parser.extract_tables(p, ...);
\* tables.extend(t).  The parser finds n tables or fails.
ExtractTables ==
    /\ pc = "extracting"
    /\ idx <= Len(pagePaths)
    /\ parserCalls' =
         Append(parserCalls,
                [path |-> pagePaths[idx], exists |-> pagePaths[idx] \in DOMAIN files,
                 doc |-> IF pagePaths[idx] \in DOMAIN files
                         THEN files[pagePaths[idx]]
                         ELSE NewPageDoc(SourcePage(doc, 0), FALSE)])
    /\ \E n \in 0..1, fails \in BOOLEAN, fault \in Faults :
         IF fails \/ pagePaths[idx] \notin DOMAIN files
         THEN /\ pc' = "except"
              /\ origErr' = fault
              /\ UNCHANGED <<tables, idx>>
         ELSE /\ pc' = "extracting"
              /\ tables' = tables \o [k \in 1..n |->
                                         [page |-> pages[idx], order |-> k]]
              /\ idx' = idx + 1
              /\ origErr' = origErr
    /\ UNCHANGED <<doc, pagesArg, filepath, password, pages, resolved, handles,
                   tempdir, dirs, files, pagePaths, parser, result, err,
                   tmpCreated, tmpReleased, pageLog>>

\* except ValueError as err: ... raise; any other failure passes the clause
ParseExcept ==
    /\ pc = "except"
    /\ err' = Translate(origErr)
    /\ pc' = "unwinding"
    /\ UNCHANGED <<doc, pagesArg, filepath, password, pages, resolved, handles,
                   tempdir, dirs, files, idx, pagePaths, parser, parserCalls,
                   tables, result, origErr, tmpCreated, tmpReleased, pageLog>>

\* the end of the with block, reached by the end of the second loop or by
\* the failure leaving the try block
ParseExitWith ==
    /\ \/ pc = "unwinding"
       \/ pc = "extracting" /\ idx > Len(pagePaths)
    /\ IF ReleasedOnExit(err)
       THEN /\ dirs' = dirs \ {tempdir}
            /\ files' = RemoveTree(files, tempdir)
            /\ tmpReleased' = tmpReleased + 1
       ELSE UNCHANGED <<dirs, files, tmpReleased>>
    /\ pc' = IF err = NoErr THEN "sorting" ELSE "raised"
    /\ UNCHANGED <<doc, pagesArg, filepath, password, pages, resolved, handles,
                   tempdir, idx, pagePaths, parser, parserCalls, tables,
                   result, origErr, err, tmpCreated, pageLog>>

\* return TableList(sorted(tables))
ParseReturn ==
    /\ pc = "sorting"
    /\ result' = SortTables(tables)
    /\ pc' = "returned"
    /\ UNCHANGED <<doc, pagesArg, filepath, password, pages, resolved, handles,
                   tempdir, dirs, files, idx, pagePaths, parser, parserCalls,
                   tables, origErr, err, tmpCreated, tmpReleased, pageLog>>

Next ==
    \/ Construct
    \/ ParseEnter
    \/ SavePageStep
    \/ MakeParser
    \/ ExtractTables
    \/ ParseExcept
    \/ ParseExitWith
    \/ ParseReturn

Spec == Init /\ [][Next]_vars

----------------------------------------------------------------------------
(* Properties *)

\* the pages argument has been resolved into self.pages
Resolved == resolved.called /\ pc # "init_failed"

\* the token is a range "a-b" of integers, or "a-end", whose start exceeds
\* its end in a document of n pages
ReversedRange(tok, n) ==
    LET parts == Split(tok, "-") IN
    /\ Len(parts) = 2
    /\ IsIntLiteral(parts[1])
    /\ \/ parts[2] = EndText /\ IntOf(parts[1]) > n
       \/ IsIntLiteral(parts[2]) /\ IntOf(parts[1]) > IntOf(parts[2])

HasReversedRange(text, n) ==
    /\ text \notin {OneText, AllText}
    /\ \E k \in 1..Len(Split(text, ",")) : ReversedRange(Split(text, ",")[k], n)

\* the path names a PDF: its last four characters are ".pdf" in any case
NamedPdf(path) ==
    LET n == Len(path) IN
    /\ n >= 4
    /\ path[n - 3] = "."
    /\ path[n - 2] \in {"p", "P"}
    /\ path[n - 1] \in {"d", "D"}
    /\ path[n] \in {"f", "F"}

\* the path lies inside directory t
Inside(path, t) == StartsAt(path, 1, t \o <<"/">>)

\* the calls of _save_page that ran to their end
Completed(k) ==
    /\ k \in 1..Len(pageLog)
    /\ \/ pc \in {"extracting", "sorting", "returned"}
       \/ pc = "saving" /\ k < idx
       \/ pc \in {"except", "unwinding", "raised"} /\ k < idx

\* C1: every page list _get_pages returns is strictly ascending and all its
\* members lie in 1 .. pageCount, whatever numbers the tokens hold.
C1_PagesAscendingInRange ==
    Resolved =>
        /\ \A j, k \in 1..Len(pages) : j < k => pages[j] < pages[k]
        /\ \A k \in 1..Len(pages) : pages[k] >= 1 /\ pages[k] <= doc.n

\* C2: a page spec holding a range whose start exceeds its end never resolves
\* to a page list: resolution fails.
C2_ReversedRangeFails ==
    (resolved.called /\ HasReversedRange(pagesArg, doc.n)) =>
        (pc = "init_failed" /\ err.kind = "ValueError")

\* C3: the literal page spec "1" resolves to [1] with the document never
\* opened, authenticated or asked for its page count; every other page spec
\* opens the document.
C3_LiteralOneNeverOpens ==
    resolved.called =>
        /\ pagesArg = OneText =>
             /\ ~resolved.opened /\ ~resolved.authed /\ ~resolved.countRead
             /\ \A k \in 1..Len(handles) : handles[k].by # "_get_pages"
             /\ pc # "init_failed"
             /\ pages = <<1>>
        /\ pagesArg # OneText =>
             /\ resolved.opened
             /\ \E k \in 1..Len(handles) : handles[k].by = "_get_pages"

C3_Witness ==
    /\ pc = "ready"
    /\ pagesArg = OneText
    /\ doc.needsPass
    /\ password # DocPassword
    /\ pages = <<1>>

\* C4: when parse has left its with block, by return or by any failure, the
\* temporary directory of the call and the files in it are gone and it was
\* removed exactly once; until then it exists and was not removed.
C4_TempDirReleasedOnce ==
    /\ tmpReleased <= tmpCreated
    /\ tmpCreated <= 1
    /\ pc \in {"sorting", "returned", "raised"} =>
         /\ tmpCreated = 1
         /\ tmpReleased = 1
         /\ tempdir \notin dirs
         /\ \A x \in DOMAIN files : ~Inside(x, tempdir)
    /\ pc \in {"saving", "extracting", "except", "unwinding"} =>
         /\ tmpReleased = 0
         /\ tempdir \in dirs

C4_Witness ==
    /\ pc = "raised"
    /\ Len(pageLog) = 2
    /\ pageLog[1].corrected
    /\ err = NotDecrypted
    /\ tmpReleased = 1

\* C5: a failure inside parse that is the engine's ValueError "document
\* closed or encrypted" leaves parse as ValueError "file has not been
\* decrypted"; any other failure leaves parse as it was raised.
C5_ErrorTranslation ==
    pc = "raised" =>
        /\ origErr # NoErr
        /\ origErr = EngineClosed =>
             /\ err.kind = "ValueError"
             /\ err.msg = "file has not been decrypted"
        /\ origErr # EngineClosed => err = origErr

C5_Witness ==
    /\ pc = "raised"
    /\ doc.needsPass
    /\ password = <<"w">>
    /\ Len(pageLog) = 1
    /\ origErr = EngineClosed
    /\ err.msg = "file has not been decrypted"

\* C6: no document handle opened by _get_pages or _save_page is open once
\* the operation has returned or raised.
C6_AllHandlesClosed ==
    \A k \in 1..Len(handles) : ~handles[k].open

\* C7: a corrected page records the rotation (r + 90) mod 360 for an
\* anticlockwise decision and (r + 270) mod 360 for a clockwise one, r being
\* the rotation recorded in the extracted document that is corrected; the
\* result is one of 0, 90, 180, 270, and no page is corrected twice.
C7_RotationOffsets ==
    \A k \in 1..Len(pageLog) :
        LET e == pageLog[k] IN
        e.corrected =>
            /\ e.decision \in {"anticlockwise", "clockwise"}
            /\ e.fpathNew \in DOMAIN files =>
                 /\ files[e.fpathNew].rot = e.r
                 /\ e.fpath \in DOMAIN files =>
                      /\ e.decision = "anticlockwise" =>
                           files[e.fpath].rot = (files[e.fpathNew].rot + 90) % 360
                      /\ e.decision = "clockwise" =>
                           files[e.fpath].rot = (files[e.fpathNew].rot + 270) % 360
            /\ e.decision = "anticlockwise" => e.newRot = (e.r + 90) % 360
            /\ e.decision = "clockwise" => e.newRot = (e.r + 270) % 360
            /\ e.newRot \in Rotations
            /\ \A j \in 1..Len(pageLog) : j # k => pageLog[j].page # e.page

C7_Witness ==
    /\ pc = "extracting"
    /\ \E k \in 1..Len(pageLog) :
         LET e == pageLog[k] IN
         /\ e.corrected
         /\ e.decision = "anticlockwise"
         /\ SourcePage(doc, e.loaded).rot = 180
         /\ e.fpath \in DOMAIN files
         /\ files[e.fpath].rot = 90

\* C8: a handler given a path that does not end in ".pdf", in any case, fails
\* with the unsupported-format failure with no document opened, no page
\* resolved and no temporary directory created; a path that ends in ".pdf"
\* or ".PDF" never meets that failure.
C8_UnsupportedFormatFirst ==
    pc # "new" =>
        /\ ~NamedPdf(filepath) =>
             /\ pc = "init_failed"
             /\ err = Unsupported
             /\ handles = <<>>
             /\ ~resolved.called
             /\ pages = <<>>
             /\ tmpCreated = 0
             /\ dirs = {}
        /\ NamedPdf(filepath) => err # Unsupported

C8_Witness ==
    /\ pc = "init_failed"
    /\ filepath = <<"a", ".", "p", "d", "f", ".", "t">>
    /\ err = Unsupported
    /\ handles = <<>>

\* C9: the single-page document _save_page leaves for a page p of the source
\* has the width and height recorded for page p in the source, with and
\* without rotation correction and whatever rotation the source records.
C9_CanvasRoundTrip ==
    \A k \in 1..Len(pageLog) :
        LET e == pageLog[k] IN
        (Completed(k) /\ e.page \in 1..doc.n) =>
            /\ e.fpath \in DOMAIN files =>
                 /\ files[e.fpath].w = SourcePage(doc, e.page).w
                 /\ files[e.fpath].h = SourcePage(doc, e.page).h
                 /\ files[e.fpath].content = e.page
            /\ pc \in {"saving", "extracting"} => e.fpath \in DOMAIN files

C9_Witness ==
    /\ pc = "extracting"
    /\ \E j, k \in 1..Len(pageLog) :
         /\ pageLog[j].corrected
         /\ SourcePage(doc, pageLog[j].page).rot = 270
         /\ ~pageLog[k].corrected
         /\ SourcePage(doc, pageLog[k].page).rot = 180
         /\ pageLog[j].page \in 1..doc.n
         /\ pageLog[k].page \in 1..doc.n

\* C10: the parser is called only when every resolved page has been saved,
\* once per resolved page, on the path of that page's final document (the
\* corrected one when correction fired, else the extracted one); a corrected
\* page has its uncorrected and its corrected document at two paths inside
\* the temporary directory, and no two pages share a path.
C10_ParserSeesFinalDocuments ==
    /\ Len(parserCalls) > 0 =>
         /\ Len(pageLog) = Len(pages)
         /\ \A k \in 1..Len(pageLog) : pageLog[k].page = pages[k]
    /\ pc = "extracting" =>
         \A k \in 1..Len(pageLog) :
             LET e == pageLog[k] IN
             /\ e.fpath \in DOMAIN files
             /\ Inside(e.fpath, tempdir)
             /\ files[e.fpath].corrected = e.corrected
             /\ e.corrected =>
                  /\ e.fpathNew # e.fpath
                  /\ e.fpathNew \in DOMAIN files
                  /\ Inside(e.fpathNew, tempdir)
                  /\ ~files[e.fpathNew].corrected
             /\ \A j \in 1..Len(pageLog) :
                  j # k => /\ pageLog[j].fpath # e.fpath
                           /\ pageLog[j].fpath # e.fpathNew
                           /\ e.corrected /\ pageLog[j].corrected =>
                                pageLog[j].fpathNew # e.fpathNew
    /\ pc = "returned" =>
         /\ Len(parserCalls) = Len(pages)
         /\ \A k \in 1..Len(parserCalls) :
              /\ parserCalls[k].path = pageLog[k].fpath
              /\ parserCalls[k].exists
              /\ parserCalls[k].doc.corrected = pageLog[k].corrected
              /\ parserCalls[k].doc.content = pageLog[k].loaded
              /\ \A j \in 1..Len(parserCalls) :
                   j # k => parserCalls[j].path # parserCalls[k].path

C10_Witness ==
    /\ pc = "returned"
    /\ Len(pages) = 2
    /\ Len(parserCalls) = 2
    /\ pageLog[1].corrected
    /\ ~pageLog[2].corrected
    /\ parserCalls[1].doc.corrected
    /\ ~parserCalls[2].doc.corrected

=============================================================================
